---------------------------- MODULE Spec2Model ----------------------------
(***************************************************************************)
(* A model of src/src/matrix.rs (cgmath-rs): the column-major matrices     *)
(* Mat2<T>, Mat3<T>, Mat4<T>, their determinant, inverse, products and      *)
(* widening constructors, and Mat3::to_Quat.                               *)
(*                                                                         *)
(* Scalars.  A value of the scalar type T is an exact rational <<n, d>>    *)
(* (d > 0, lowest terms).  For T = float the arithmetic is the exact       *)
(* rational arithmetic (rounding is not modelled); for T = i8 every        *)
(* operation wraps to 8 bits as the machine arithmetic does.               *)
(*                                                                         *)
(* Indices.  Vectors and matrices are functions on 0..N-1, so that m[c][r] *)
(* is the source's self[c][r]: column c, row r.                            *)
(***************************************************************************)
EXTENDS Integers, Sequences, FiniteSets, TLC

VARIABLES
    ty,     \* the scalar type T of the matrix: "float" or "i8"
    n,      \* the dimension of the receiver: 2, 3 or 4
    A,      \* the receiver (self)
    op,     \* the operation applied to A, "new" before any
    arg,    \* the operation's argument (a scalar, a matrix) or NoArg
    out     \* the operation's result

vars == <<ty, n, A, op, arg, out>>

-----------------------------------------------------------------------------
(* Exact rationals: the values of T.                                       *)

Abs(i) == IF i < 0 THEN -i ELSE i

RECURSIVE GCD(_, _)
GCD(a, b) == IF b = 0 THEN a ELSE GCD(b, a % b)

\* the rational p/q in lowest terms with a positive denominator (q # 0)
Rat(p, q) ==
    LET g == GCD(Abs(p), Abs(q))
        s == IF q < 0 THEN -1 ELSE 1
    IN  <<(s * p) \div g, (s * q) \div g>>

Int2R(i) == <<i, 1>>

R0 == Int2R(0)
R1 == Int2R(1)

\* sums and products cancel common factors before they multiply, which keeps
\* the intermediate integers small
RAdd(a, b) ==
    IF a[2] = 1 /\ b[2] = 1 THEN <<a[1] + b[1], 1>>
    ELSE LET g == GCD(a[2], b[2])
         IN  Rat(a[1] * (b[2] \div g) + b[1] * (a[2] \div g), (a[2] \div g) * b[2])
RNeg(a)    == <<-a[1], a[2]>>
RSub(a, b) == RAdd(a, RNeg(b))
RMul(a, b) ==
    IF a[2] = 1 /\ b[2] = 1 THEN <<a[1] * b[1], 1>>
    ELSE LET x == Rat(a[1], b[2])
             y == Rat(b[1], a[2])
         IN  <<x[1] * y[1], x[2] * y[2]>>
\* a / b for b # 0
RInv(b)    == IF b[1] < 0 THEN <<-b[2], -b[1]>> ELSE <<b[2], b[1]>>
RDiv(a, b) == RMul(a, RInv(b))
RLt(a, b)  == a[1] * b[2] < b[1] * a[2]
RAbs(a)    == <<Abs(a[1]), a[2]>>
RIsInt(a)  == a[2] = 1


\* std::cmp::FuzzyEq for floats: |a - b| < FUZZY_EPSILON = 1.0e-6
FuzzyEpsDen == 1000000
fuzzy_eq(a, b) == RLt(RAbs(RSub(a, b)), Rat(1, FuzzyEpsDen))

-----------------------------------------------------------------------------
(* Vectors (vector.rs): functions on 0..N-1 of scalars.                    *)

\* the 0-based tuple of a sequence
Tup(s) == [i \in 0..(Len(s) - 1) |-> s[i + 1]]

Vec2_new(x, y)       == Tup(<<x, y>>)
Vec3_new(x, y, z)    == Tup(<<x, y, z>>)
Vec4_new(x, y, z, w) == Tup(<<x, y, z, w>>)

Dim(v) == Cardinality(DOMAIN v)

RECURSIVE DotUpTo(_, _, _)
DotUpTo(u, v, i) ==
    IF i = 0 THEN RMul(u[0], v[0])
    ELSE RAdd(DotUpTo(u, v, i - 1), RMul(u[i], v[i]))

Vec_dot(u, v)   == DotUpTo(u, v, Dim(u) - 1)
Vec_mul_t(v, k) == [i \in DOMAIN v |-> RMul(v[i], k)]
Vec_div_t(v, k) == [i \in DOMAIN v |-> RDiv(v[i], k)]
Vec_sub_v(u, v) == [i \in DOMAIN u |-> RSub(u[i], v[i])]

Vec3_cross(u, v) ==
    Vec3_new(RSub(RMul(u[1], v[2]), RMul(u[2], v[1])),
             RSub(RMul(u[2], v[0]), RMul(u[0], v[2])),
             RSub(RMul(u[0], v[1]), RMul(u[1], v[0])))

-----------------------------------------------------------------------------
(* Mat2: a 2x2, column-major matrix.                                       *)

Mat2_from_cols(c0, c1) == Tup(<<c0, c1>>)

\* Mat2::new reading its arguments row by row
Mut_Mat2_new(c0r0, c0r1, c1r0, c1r1) ==
    Mat2_from_cols(Vec2_new(c0r0, c1r0), Vec2_new(c0r1, c1r1))

Mat2_new(c0r0, c0r1, c1r0, c1r1) ==
    Mat2_from_cols(Vec2_new(c0r0, c0r1), Vec2_new(c1r0, c1r1))

Mat2_identity == Mat2_new(R1, R0,
                          R0, R1)

Mat2_col(m, i) == m[i]
Mat2_row(m, i) == Vec2_new(m[0][i], m[1][i])

Mat2_mul_t(m, value) == Mat2_from_cols(Vec_mul_t(m[0], value),
                                       Vec_mul_t(m[1], value))

Mat2_mul_m(m, other) ==
    Mat2_new(Vec_dot(Mat2_row(m, 0), Mat2_col(other, 0)), Vec_dot(Mat2_row(m, 1), Mat2_col(other, 0)),
             Vec_dot(Mat2_row(m, 0), Mat2_col(other, 1)), Vec_dot(Mat2_row(m, 1), Mat2_col(other, 1)))

Mat2_det(m) == RSub(RMul(m[0][0], m[1][1]), RMul(m[1][0], m[0][1]))

\* Option<Mat<T>>: None, or Some(matrix)
None    == [some |-> FALSE]
Some(m) == [some |-> TRUE, val |-> m]

Mat2_invert(m) ==
    LET d == Mat2_det(m)
    IN  IF fuzzy_eq(d, R0) THEN None
        ELSE Some(Mat2_new(RDiv(m[1][1], d), RDiv(RNeg(m[0][1]), d),
                           RDiv(RNeg(m[1][0]), d), RDiv(m[0][0], d)))

Mat2_transpose(m) == Mat2_new(m[0][0], m[1][0],
                              m[0][1], m[1][1])

Mat2_is_invertible(m) == ~fuzzy_eq(Mat2_det(m), R0)

-----------------------------------------------------------------------------
(* Mat3: a 3x3, column-major matrix.                                       *)

Mat3_from_cols(c0, c1, c2) == Tup(<<c0, c1, c2>>)

Mat3_new(c0r0, c0r1, c0r2, c1r0, c1r1, c1r2, c2r0, c2r1, c2r2) ==
    Mat3_from_cols(Vec3_new(c0r0, c0r1, c0r2),
                   Vec3_new(c1r0, c1r1, c1r2),
                   Vec3_new(c2r0, c2r1, c2r2))

Mat3_from_Mat2(m) ==
    Mat3_new(m[0][0], m[0][1], R0,
             m[1][0], m[1][1], R0,
                  R0,      R0, R1)

Mat3_identity == Mat3_new(R1, R0, R0,
                          R0, R1, R0,
                          R0, R0, R1)

Mat3_col(m, i) == m[i]
Mat3_row(m, i) == Vec3_new(m[0][i], m[1][i], m[2][i])

Mat3_mul_t(m, value) == Mat3_from_cols(Vec_mul_t(m[0], value),
                                       Vec_mul_t(m[1], value),
                                       Vec_mul_t(m[2], value))

Mat3_mul_m(m, other) ==
    Mat3_new(Vec_dot(Mat3_row(m, 0), Mat3_col(other, 0)), Vec_dot(Mat3_row(m, 1), Mat3_col(other, 0)), Vec_dot(Mat3_row(m, 2), Mat3_col(other, 0)),
             Vec_dot(Mat3_row(m, 0), Mat3_col(other, 1)), Vec_dot(Mat3_row(m, 1), Mat3_col(other, 1)), Vec_dot(Mat3_row(m, 2), Mat3_col(other, 1)),
             Vec_dot(Mat3_row(m, 0), Mat3_col(other, 2)), Vec_dot(Mat3_row(m, 1), Mat3_col(other, 2)), Vec_dot(Mat3_row(m, 2), Mat3_col(other, 2)))

Mat3_det(m) == Vec_dot(Mat3_col(m, 0), Vec3_cross(Mat3_col(m, 1), Mat3_col(m, 2)))

Mat3_transpose(m) == Mat3_new(m[0][0], m[1][0], m[2][0],
                              m[0][1], m[1][1], m[2][1],
                              m[0][2], m[1][2], m[2][2])

Mat3_invert(m) ==
    LET d == Mat3_det(m)
    IN  IF fuzzy_eq(d, R0) THEN None
        ELSE Some(Mat3_transpose(
                 Mat3_from_cols(Vec_div_t(Vec3_cross(m[1], m[2]), d),
                                Vec_div_t(Vec3_cross(m[2], m[0]), d),
                                Vec_div_t(Vec3_cross(m[0], m[1]), d))))

\* is_invertible comparing the determinant with zero exactly
Mut_Mat3_is_invertible(m) == Mat3_det(m) # R0

Mat3_is_invertible(m) == ~fuzzy_eq(Mat3_det(m), R0)

-----------------------------------------------------------------------------
(* Mat4: a 4x4, column-major matrix.                                       *)

Mat4_from_cols(c0, c1, c2, c3) == Tup(<<c0, c1, c2, c3>>)

Mat4_new(c0r0, c0r1, c0r2, c0r3, c1r0, c1r1, c1r2, c1r3, c2r0, c2r1, c2r2, c2r3, c3r0, c3r1, c3r2, c3r3) ==
    Mat4_from_cols(Vec4_new(c0r0, c0r1, c0r2, c0r3),
                   Vec4_new(c1r0, c1r1, c1r2, c1r3),
                   Vec4_new(c2r0, c2r1, c2r2, c2r3),
                   Vec4_new(c3r0, c3r1, c3r2, c3r3))

\* Mat4::from_Mat2 laying the 2x2 block out row by row
Mut_Mat4_from_Mat2(m) ==
    Mat4_new(m[0][0], m[1][0], R0, R0,
             m[0][1], m[1][1], R0, R0,
                  R0,      R0, R1, R0,
                  R0,      R0, R0, R1)

Mat4_from_Mat2(m) ==
    Mat4_new(m[0][0], m[0][1], R0, R0,
             m[1][0], m[1][1], R0, R0,
                  R0,      R0, R1, R0,
                  R0,      R0, R0, R1)

Mat4_from_Mat3(m) ==
    Mat4_new(m[0][0], m[0][1], m[0][2], R0,
             m[1][0], m[1][1], m[1][2], R0,
             m[2][0], m[2][1], m[2][2], R0,
                  R0,      R0,      R0, R1)

Mat4_identity == Mat4_new(R1, R0, R0, R0,
                          R0, R1, R0, R0,
                          R0, R0, R1, R0,
                          R0, R0, R0, R1)

Mat4_col(m, i) == m[i]
\* Mat4::row returning the stored column
Mut_Mat4_row(m, i) == m[i]

Mat4_row(m, i) == Vec4_new(m[0][i], m[1][i], m[2][i], m[3][i])

\* Mat4::mul_t scaling three columns, as Mat3::mul_t does
Mut_Mat4_mul_t(m, value) == Mat4_from_cols(Vec_mul_t(m[0], value),
                                           Vec_mul_t(m[1], value),
                                           Vec_mul_t(m[2], value),
                                           m[3])

Mat4_mul_t(m, value) == Mat4_from_cols(Vec_mul_t(m[0], value),
                                       Vec_mul_t(m[1], value),
                                       Vec_mul_t(m[2], value),
                                       Vec_mul_t(m[3], value))

Mat4_mul_m(m, other) ==
    Mat4_new(Vec_dot(Mat4_row(m, 0), Mat4_col(other, 0)), Vec_dot(Mat4_row(m, 1), Mat4_col(other, 0)), Vec_dot(Mat4_row(m, 2), Mat4_col(other, 0)), Vec_dot(Mat4_row(m, 3), Mat4_col(other, 0)),
             Vec_dot(Mat4_row(m, 0), Mat4_col(other, 1)), Vec_dot(Mat4_row(m, 1), Mat4_col(other, 1)), Vec_dot(Mat4_row(m, 2), Mat4_col(other, 1)), Vec_dot(Mat4_row(m, 3), Mat4_col(other, 1)),
             Vec_dot(Mat4_row(m, 0), Mat4_col(other, 2)), Vec_dot(Mat4_row(m, 1), Mat4_col(other, 2)), Vec_dot(Mat4_row(m, 2), Mat4_col(other, 2)), Vec_dot(Mat4_row(m, 3), Mat4_col(other, 2)),
             Vec_dot(Mat4_row(m, 0), Mat4_col(other, 3)), Vec_dot(Mat4_row(m, 1), Mat4_col(other, 3)), Vec_dot(Mat4_row(m, 2), Mat4_col(other, 3)), Vec_dot(Mat4_row(m, 3), Mat4_col(other, 3)))

\* Mat4::det adding all four cofactor terms
Mut_Mat4_det_signs(m) ==
    LET t0 == RMul(m[0][0], Mat3_det(Mat3_new(m[1][1], m[2][1], m[3][1],
                                              m[1][2], m[2][2], m[3][2],
                                              m[1][3], m[2][3], m[3][3])))
        t1 == RMul(m[1][0], Mat3_det(Mat3_new(m[0][1], m[2][1], m[3][1],
                                              m[0][2], m[2][2], m[3][2],
                                              m[0][3], m[2][3], m[3][3])))
        t2 == RMul(m[2][0], Mat3_det(Mat3_new(m[0][1], m[1][1], m[3][1],
                                              m[0][2], m[1][2], m[3][2],
                                              m[0][3], m[1][3], m[3][3])))
        t3 == RMul(m[3][0], Mat3_det(Mat3_new(m[0][1], m[1][1], m[2][1],
                                              m[0][2], m[1][2], m[2][2],
                                              m[0][3], m[1][3], m[2][3])))
    IN  RAdd(RAdd(RAdd(t0, t1), t2), t3)

\* Mat4::det whose third minor repeats column 2 where column 3 belongs
Mut_Mat4_det_minor(m) ==
    LET t0 == RMul(m[0][0], Mat3_det(Mat3_new(m[1][1], m[2][1], m[3][1],
                                              m[1][2], m[2][2], m[3][2],
                                              m[1][3], m[2][3], m[3][3])))
        t1 == RMul(m[1][0], Mat3_det(Mat3_new(m[0][1], m[2][1], m[3][1],
                                              m[0][2], m[2][2], m[3][2],
                                              m[0][3], m[2][3], m[3][3])))
        t2 == RMul(m[2][0], Mat3_det(Mat3_new(m[0][1], m[1][1], m[3][1],
                                              m[0][2], m[1][2], m[3][2],
                                              m[0][3], m[1][3], m[2][3])))
        t3 == RMul(m[3][0], Mat3_det(Mat3_new(m[0][1], m[1][1], m[2][1],
                                              m[0][2], m[1][2], m[2][2],
                                              m[0][3], m[1][3], m[2][3])))
    IN  RSub(RAdd(RSub(t0, t1), t2), t3)

Mat4_det(m) ==
    LET t0 == RMul(m[0][0], Mat3_det(Mat3_new(m[1][1], m[2][1], m[3][1],
                                              m[1][2], m[2][2], m[3][2],
                                              m[1][3], m[2][3], m[3][3])))
        t1 == RMul(m[1][0], Mat3_det(Mat3_new(m[0][1], m[2][1], m[3][1],
                                              m[0][2], m[2][2], m[3][2],
                                              m[0][3], m[2][3], m[3][3])))
        t2 == RMul(m[2][0], Mat3_det(Mat3_new(m[0][1], m[1][1], m[3][1],
                                              m[0][2], m[1][2], m[3][2],
                                              m[0][3], m[1][3], m[3][3])))
        t3 == RMul(m[3][0], Mat3_det(Mat3_new(m[0][1], m[1][1], m[2][1],
                                              m[0][2], m[1][2], m[2][2],
                                              m[0][3], m[1][3], m[2][3])))
    IN  RSub(RAdd(RSub(t0, t1), t2), t3)

Mat4_transpose(m) == Mat4_new(m[0][0], m[1][0], m[2][0], m[3][0],
                              m[0][1], m[1][1], m[2][1], m[3][1],
                              m[0][2], m[1][2], m[2][2], m[3][2],
                              m[0][3], m[1][3], m[2][3], m[3][3])

(* Mat4::invert, the Gauss-Jordan elimination.  The working state is the   *)
(* pair [a, inv] of the loop's two mutable matrices; a[i] (a column of the *)
(* transpose) is row i of the matrix being reduced.                        *)

\* the scan with `>=` for `>`: a later row of equal size replaces the candidate
RECURSIVE Mut_Mat4_invert_scan(_, _, _, _)
Mut_Mat4_invert_scan(a, j, i, i1) ==
    IF i >= 4 THEN i1
    ELSE Mut_Mat4_invert_scan(a, j, i + 1,
             IF ~RLt(RAbs(a[i][j]), RAbs(a[i1][j])) THEN i ELSE i1)

\* the inner scan `for uint::range(j + 1, 4) |i|`, from row i with the
\* candidate i1 found so far
RECURSIVE Mat4_invert_scan(_, _, _, _)
Mat4_invert_scan(a, j, i, i1) ==
    IF i >= 4 THEN i1
    ELSE Mat4_invert_scan(a, j, i + 1,
             IF RLt(RAbs(a[i1][j]), RAbs(a[i][j])) THEN i ELSE i1)

\* no search: the diagonal entry is taken as the pivot
Mut_Mat4_invert_pivot(a, j) == j

Mat4_invert_pivot(a, j) == Mat4_invert_scan(a, j, j + 1, j)

\* c[i1] <-> c[j]
SwapCols(m, i1, j) ==
    [i \in DOMAIN m |-> IF i = i1 THEN m[j] ELSE IF i = j THEN m[i1] ELSE m[i]]

\* the rows of a swapped, those of inv left in place
Mut_Mat4_invert_swap(st, i1, j) ==
    [a |-> SwapCols(st.a, i1, j), inv |-> st.inv]

Mat4_invert_swap(st, i1, j) ==
    [a |-> SwapCols(st.a, i1, j), inv |-> SwapCols(st.inv, i1, j)]

\* the scaling done on a first, so that inv is divided by the new a[j][j]
Mut_Mat4_invert_scale(st, j) ==
    LET a1   == [st.a EXCEPT ![j] = Vec_div_t(st.a[j], st.a[j][j])]
        inv1 == [st.inv EXCEPT ![j] = Vec_div_t(st.inv[j], a1[j][j])]
    IN  [a |-> a1, inv |-> inv1]

\* inv is scaled first, by the a[j][j] that a's own scaling then overwrites
Mat4_invert_scale(st, j) ==
    LET inv1 == [st.inv EXCEPT ![j] = Vec_div_t(st.inv[j], st.a[j][j])]
        a1   == [st.a EXCEPT ![j] = Vec_div_t(st.a[j], st.a[j][j])]
    IN  [a |-> a1, inv |-> inv1]

\* forward elimination only: the rows above the pivot are left alone
Mut_Mat4_invert_elim_row(st, i, j) ==
    IF i <= j THEN st
    ELSE LET inv1 == [st.inv EXCEPT
                         ![i] = Vec_sub_v(st.inv[i], Vec_mul_t(st.inv[j], st.a[i][j]))]
             a1   == [st.a EXCEPT
                         ![i] = Vec_sub_v(st.a[i], Vec_mul_t(st.a[j], st.a[i][j]))]
         IN  [a |-> a1, inv |-> inv1]

Mat4_invert_elim_row(st, i, j) ==
    IF i = j THEN st
    ELSE LET inv1 == [st.inv EXCEPT
                         ![i] = Vec_sub_v(st.inv[i], Vec_mul_t(st.inv[j], st.a[i][j]))]
             a1   == [st.a EXCEPT
                         ![i] = Vec_sub_v(st.a[i], Vec_mul_t(st.a[j], st.a[i][j]))]
         IN  [a |-> a1, inv |-> inv1]

\* the loop `for uint::range(0, 4) |i|`, from row i
RECURSIVE Mat4_invert_elim(_, _, _)
Mat4_invert_elim(st, i, j) ==
    IF i >= 4 THEN st
    ELSE Mat4_invert_elim(Mat4_invert_elim_row(st, i, j), i + 1, j)

\* one iteration of the outer loop, for pivot column j
Mat4_invert_step(st, j) ==
    LET i1 == Mat4_invert_pivot(st.a, j)
    IN  Mat4_invert_elim(
            Mat4_invert_scale(Mat4_invert_swap(st, i1, j), j), 0, j)

\* the outer loop `for uint::range(0, 4) |j|`, from column j
RECURSIVE Mat4_invert_loop(_, _)
Mat4_invert_loop(st, j) ==
    IF j >= 4 THEN st
    ELSE Mat4_invert_loop(Mat4_invert_step(st, j), j + 1)

Mat4_invert_start(m) == [a |-> Mat4_transpose(m), inv |-> Mat4_identity]

Mat4_invert(m) ==
    LET d == Mat4_det(m)
    IN  IF fuzzy_eq(d, R0) THEN None
        ELSE Some(Mat4_transpose(Mat4_invert_loop(Mat4_invert_start(m), 0).inv))

Mat4_is_invertible(m) == ~fuzzy_eq(Mat4_det(m), R0)

-----------------------------------------------------------------------------
(* The arithmetic of T by type, and the `float` values of to_Quat.         *)

\* an integer wrapped to 8 bits, two's complement
Wrap8(i) == ((i + 128) % 256) - 128

\* an integer clamped to the range of 8 bits
Sat8(i) == IF i > 127 THEN 127 ELSE IF i < -128 THEN -128 ELSE i

\* a + b in T with a saturating sum for i8
Mut_TAdd(t, a, b) == IF t = "i8" THEN Int2R(Sat8(a[1] + b[1])) ELSE RAdd(a, b)

\* a + b and a - b in T: exact for float, wrapping for i8
TAdd(t, a, b) == IF t = "i8" THEN Int2R(Wrap8(a[1] + b[1])) ELSE RAdd(a, b)
TSub(t, a, b) == IF t = "i8" THEN Int2R(Wrap8(a[1] - b[1])) ELSE RSub(a, b)

\* floor(sqrt(i)) for an integer i >= 0
ISqrt(i) == CHOOSE k \in 0..i : k * k <= i /\ (k + 1) * (k + 1) > i

IsSquare(i) == ISqrt(i) * ISqrt(i) = i

(* A float is NaN, an infinity, or the number c * sqrt(r) for rationals c   *)
(* and r > 0, kept with r = 1 whenever the number is rational.             *)
FNaN      == [k |-> "nan"]
FInf(sgn) == [k |-> "inf", s |-> sgn]
FNum(c, r) ==
    IF c = R0 \/ r = R0 THEN [k |-> "num", c |-> R0, r |-> R1]
    ELSE IF IsSquare(r[1]) /\ IsSquare(r[2])
         THEN [k |-> "num", c |-> RMul(c, Rat(ISqrt(r[1]), ISqrt(r[2]))), r |-> R1]
         ELSE [k |-> "num", c |-> c, r |-> r]

\* cast::<float> of a value of T
FromT(x) == FNum(x, R1)

F0    == FromT(R0)
F1    == FromT(R1)
FHalf == FromT(Rat(1, 2))

FSign(a) == IF a.k = "inf" THEN a.s
            ELSE IF a.c[1] > 0 THEN 1 ELSE IF a.c[1] < 0 THEN -1 ELSE 0

\* a >= 0 (false for NaN, as every comparison with NaN is)
FGe0(a) == a.k # "nan" /\ FSign(a) >= 0

\* a + b for rational a, b (the only sums to_Quat takes)
FAdd(a, b) ==
    IF a.k = "nan" \/ b.k = "nan" THEN FNaN
    ELSE IF a.k = "inf" THEN (IF b.k = "inf" /\ b.s # a.s THEN FNaN ELSE a)
    ELSE IF b.k = "inf" THEN b
    ELSE FNum(RAdd(a.c, b.c), R1)

\* a * b, for numbers of which one is rational or which share their radicand
FMul(a, b) ==
    IF a.k = "nan" \/ b.k = "nan" THEN FNaN
    ELSE IF a.k = "inf" \/ b.k = "inf"
         THEN (IF FSign(a) * FSign(b) = 0 THEN FNaN ELSE FInf(FSign(a) * FSign(b)))
    ELSE IF a.r = R1 THEN FNum(RMul(a.c, b.c), b.r)
    ELSE IF b.r = R1 THEN FNum(RMul(a.c, b.c), a.r)
    ELSE FNum(RMul(RMul(a.c, b.c), a.r), R1)

\* a / b for a rational number a # 0
FDiv(a, b) ==
    IF a.k = "nan" \/ b.k = "nan" THEN FNaN
    ELSE IF b.k = "inf" THEN F0
    ELSE IF b.c = R0 THEN FInf(FSign(a))
    ELSE FNum(RDiv(a.c, RMul(b.c, b.r)), b.r)

\* sqrt of a rational number
FSqrt(a) ==
    IF a.k = "nan" THEN FNaN
    ELSE IF a.k = "inf" THEN (IF a.s > 0 THEN a ELSE FNaN)
    ELSE IF a.c[1] < 0 THEN FNaN
    ELSE FNum(R1, a.c)

\* floor(sqrt(p/q)) for a rational p/q >= 0
FloorSqrt(x) == CHOOSE k \in 0..(x[1] + 1) :
                    k * k * x[2] <= x[1] /\ (k + 1) * (k + 1) * x[2] > x[1]

\* the finite number a truncated towards zero
FTrunc(a) ==
    IF a.r = R1 THEN (IF a.c[1] < 0 THEN -((-a.c[1]) \div a.c[2]) ELSE a.c[1] \div a.c[2])
    ELSE FSign(a) * FloorSqrt(RMul(RMul(a.c, a.c), a.r))

\* cast::<T> of a float.  For i8 the cast of NaN, of an infinity or of a
\* number out of range is undefined: ub is the value the build produces.
CastToT(t, a, ub) ==
    IF t = "float" THEN a
    ELSE IF a.k # "num" THEN FromT(Int2R(ub))
    ELSE IF FTrunc(a) < -128 \/ FTrunc(a) > 127 THEN FromT(Int2R(ub))
    ELSE FromT(Int2R(FTrunc(a)))

Quat_new(w, x, y, z) == [w |-> w, x |-> x, y |-> y, z |-> z]

\* the branch selection with a00 compared with a11 alone
Mut_Mat3_to_Quat_branch(m, trace) ==
    IF FGe0(trace) THEN 1
    ELSE IF RLt(m[1][1], m[0][0]) THEN 2
    ELSE IF RLt(m[2][2], m[1][1]) THEN 3
    ELSE 4

\* the branch to_Quat takes: 1 for trace >= 0, else 2, 3, 4 in source order
Mat3_to_Quat_branch(m, trace) ==
    IF FGe0(trace) THEN 1
    ELSE IF RLt(m[1][1], m[0][0]) /\ RLt(m[2][2], m[0][0]) THEN 2
    ELSE IF RLt(m[2][2], m[1][1]) THEN 3
    ELSE 4

\* the argument of sqrt with the `+ 1f` of the first branch left out
Mut_Mat3_to_Quat_arg(t, m, trace, branch) ==
    CASE branch = 1 -> trace
      [] branch = 2 -> FAdd(F1, FromT(TSub(t, TSub(t, m[0][0], m[1][1]), m[2][2])))
      [] branch = 3 -> FAdd(F1, FromT(TSub(t, TSub(t, m[1][1], m[0][0]), m[2][2])))
      [] branch = 4 -> FAdd(F1, FromT(TSub(t, TSub(t, m[2][2], m[0][0]), m[1][1])))

\* the argument of sqrt in the branch taken
Mat3_to_Quat_arg(t, m, trace, branch) ==
    CASE branch = 1 -> FAdd(trace, F1)
      [] branch = 2 -> FAdd(F1, FromT(TSub(t, TSub(t, m[0][0], m[1][1]), m[2][2])))
      [] branch = 3 -> FAdd(F1, FromT(TSub(t, TSub(t, m[1][1], m[0][0]), m[2][2])))
      [] branch = 4 -> FAdd(F1, FromT(TSub(t, TSub(t, m[2][2], m[0][0]), m[1][1])))

\* Mat3::to_Quat with its locals: the trace, the branch, the argument of
\* sqrt, and the quaternion returned
Mat3_to_Quat(t, m, ub) ==
    LET trace  == FromT(TAdd(t, TAdd(t, m[0][0], m[1][1]), m[2][2]))
        branch == Mat3_to_Quat_branch(m, trace)
        sqarg  == Mat3_to_Quat_arg(t, m, trace, branch)
        s0  == FSqrt(sqarg)
        w   == FMul(FHalf, s0)
        s   == FDiv(FHalf, s0)
        d12 == FromT(TSub(t, m[1][2], m[2][1]))
        d20 == FromT(TSub(t, m[2][0], m[0][2]))
        d01 == FromT(TSub(t, m[0][1], m[1][0]))
        x   == FMul(CASE branch = 1 -> d12 [] branch = 2 -> d01
                      [] branch = 3 -> d01 [] branch = 4 -> d20, s)
        y   == FMul(CASE branch = 1 -> d20 [] branch = 2 -> d20
                      [] branch = 3 -> d12 [] branch = 4 -> d12, s)
        z   == FMul(CASE branch = 1 -> d01 [] branch = 2 -> d12
                      [] branch = 3 -> d20 [] branch = 4 -> d01, s)
    IN  [trace |-> trace, branch |-> branch, sqarg |-> sqarg,
         q |-> Quat_new(CastToT(t, w, ub), CastToT(t, x, ub),
                        CastToT(t, y, ub), CastToT(t, z, ub))]

-----------------------------------------------------------------------------
(* The trait NumericMatrix_NxN and the widening traits, by dimension.      *)

Identity(nn) == CASE nn = 2 -> Mat2_identity
                  [] nn = 3 -> Mat3_identity
                  [] nn = 4 -> Mat4_identity

Det(nn, m) == CASE nn = 2 -> Mat2_det(m)
                [] nn = 3 -> Mat3_det(m)
                [] nn = 4 -> Mat4_det(m)

Invert(nn, m) == CASE nn = 2 -> Mat2_invert(m)
                   [] nn = 3 -> Mat3_invert(m)
                   [] nn = 4 -> Mat4_invert(m)

IsInvertible(nn, m) == CASE nn = 2 -> Mat2_is_invertible(m)
                         [] nn = 3 -> Mat3_is_invertible(m)
                         [] nn = 4 -> Mat4_is_invertible(m)

MulT(nn, m, value) == CASE nn = 2 -> Mat2_mul_t(m, value)
                        [] nn = 3 -> Mat3_mul_t(m, value)
                        [] nn = 4 -> Mat4_mul_t(m, value)

MulM(nn, m, other) == CASE nn = 2 -> Mat2_mul_m(m, other)
                        [] nn = 3 -> Mat3_mul_m(m, other)
                        [] nn = 4 -> Mat4_mul_m(m, other)

Transpose(nn, m) == CASE nn = 2 -> Mat2_transpose(m)
                      [] nn = 3 -> Mat3_transpose(m)
                      [] nn = 4 -> Mat4_transpose(m)

Row(nn, m, i) == CASE nn = 2 -> Mat2_row(m, i)
                   [] nn = 3 -> Mat3_row(m, i)
                   [] nn = 4 -> Mat4_row(m, i)

Col(nn, m, i) == CASE nn = 2 -> Mat2_col(m, i)
                   [] nn = 3 -> Mat3_col(m, i)
                   [] nn = 4 -> Mat4_col(m, i)

Mat2_to_Mat3(m) == Mat3_from_Mat2(m)
Mat2_to_Mat4(m) == Mat4_from_Mat2(m)
Mat3_to_Mat4(m) == Mat4_from_Mat3(m)

\* to_Mat<target> of an nn x nn matrix
Widen(nn, target, m) == CASE nn = 2 /\ target = 3 -> Mat2_to_Mat3(m)
                          [] nn = 2 /\ target = 4 -> Mat2_to_Mat4(m)
                          [] nn = 3 /\ target = 4 -> Mat3_to_Mat4(m)

-----------------------------------------------------------------------------
(* The matrices the operations are applied to.                             *)

\* the number of palette vectors a matrix's columns are drawn from
NumCols == 7
\* the scalars of mul_t are the halves i/2, |i| <= MaxK
MaxK == 3

\* column vectors: the four unit vectors, then dense ones
Palette == << <<1, 0, 0, 0>>, <<0, 1, 0, 0>>, <<0, 0, 1, 0>>, <<0, 0, 0, 1>>,
              <<2, 1, 3, 0>>, <<-1, 2, 0, 3>>, <<3, -2, 1, 1>>, <<1, 3, -2, 2>>,
              <<-2, 1, 1, -3>> >>

\* column 0 is divided by sc: sc = 1 gives integer matrices, sc = 4000000
\* matrices whose determinants lie around the tolerance of fuzzy_eq (2x2 and
\* 3x3 only: the elimination of a 4x4 matrix so scaled leaves the range of
\* the model checker's integers)
Scales(nn) == IF nn < 4 THEN {1, 4000000} ELSE {1}

Dims == {2, 3, 4}

PalVec(nn, p, sc) == [r \in 0..(nn - 1) |-> Rat(Palette[p][r + 1], sc)]

\* the nn x nn matrix whose column c is palette vector ix[c]
PalMat(nn, ix, sc) ==
    [c \in 0..(nn - 1) |-> PalVec(nn, ix[c], IF c = 0 THEN sc ELSE 1)]

\* the argument of mul_m: palette vectors b, b+1, ... (cyclically) as columns
OtherMat(nn, b) ==
    PalMat(nn, [c \in 0..(nn - 1) |-> ((b - 1 + c) % NumCols) + 1], 1)

KVals == {Rat(i, 2) : i \in (-MaxK)..MaxK}

IsIntMat(m) == \A c \in DOMAIN m : \A r \in DOMAIN m[c] : RIsInt(m[c][r])

\* the matrices of the spec's concrete scenarios
ScenarioMats(nn) ==
    IF nn = 2 THEN {Mat2_new(Int2R(1), Int2R(2), Int2R(3), Int2R(4))} ELSE {}

InitMats(nn) ==
    {PalMat(nn, ix, sc) : ix \in [0..(nn - 1) -> 1..NumCols], sc \in Scales(nn)}
        \cup ScenarioMats(nn)

NoArg == "NoArg"

Init ==
    /\ ty = "float"
    /\ n \in Dims
    /\ A \in InitMats(n)
    /\ op = "new"
    /\ arg = NoArg
    /\ out = NoArg

DoDet ==
    /\ op = "new"
    /\ op' = "det"
    /\ out' = Det(n, A)
    /\ UNCHANGED <<ty, n, A, arg>>

DoInvert ==
    /\ op = "new"
    /\ op' = "invert"
    /\ out' = Invert(n, A)
    /\ UNCHANGED <<ty, n, A, arg>>

DoIsInvertible ==
    /\ op = "new"
    /\ op' = "is_invertible"
    /\ out' = IsInvertible(n, A)
    /\ UNCHANGED <<ty, n, A, arg>>

DoMulT ==
    /\ op = "new"
    /\ \E value \in KVals :
          /\ arg' = value
          /\ out' = MulT(n, A, value)
    /\ op' = "mul_t"
    /\ UNCHANGED <<ty, n, A>>

DoMulM ==
    /\ op = "new"
    /\ IsIntMat(A)
    /\ \E b \in 1..NumCols :
          /\ arg' = OtherMat(n, b)
          /\ out' = MulM(n, A, OtherMat(n, b))
    /\ op' = "mul_m"
    /\ UNCHANGED <<ty, n, A>>

DoTranspose ==
    /\ op = "new"
    /\ op' = "transpose"
    /\ out' = Transpose(n, A)
    /\ UNCHANGED <<ty, n, A, arg>>

DoWiden ==
    /\ op = "new"
    /\ \E target \in Dims :
          /\ n < target
          /\ arg' = target
          /\ out' = Widen(n, target, A)
          /\ op' = IF target = 3 THEN "to_Mat3" ELSE "to_Mat4"
    /\ UNCHANGED <<ty, n, A>>

Next ==
    \/ DoDet
    \/ DoInvert
    \/ DoIsInvertible
    \/ DoMulT
    \/ DoMulM
    \/ DoTranspose
    \/ DoWiden

Spec == Init /\ [][Next]_vars

-----------------------------------------------------------------------------
(* Mat3::to_Quat, for T = float and T = i8.                                *)

\* the diagonal entries of the general matrices are the multiples 50 * v,
\* |v| <= QMax, that T holds
QMax == 2

InT(t, i) == t = "float" \/ (-128 <= i /\ i <= 127)

DiagVals(t) == {Int2R(50 * v) : v \in {u \in (-QMax)..QMax : InT(t, 50 * u)}}

\* the off-diagonal entries (c0r1, c0r2, c1r0, c1r2, c2r0, c2r1)
OffDiags == { <<0, 0, 0, 0, 0, 0>>, <<1, -2, 3, 5, -4, 7>> }

GeneralMats(t) ==
    {Mat3_new(d[1], Int2R(o[1]), Int2R(o[2]),
              Int2R(o[3]), d[2], Int2R(o[4]),
              Int2R(o[5]), Int2R(o[6]), d[3]) :
        d \in DiagVals(t) \X DiagVals(t) \X DiagVals(t), o \in OffDiags}

\* the rotation matrix of a unit quaternion (w, x, y, z) with rational
\* components, column-major
RotOfRQuat(q) ==
    LET w == q[1]  x == q[2]  y == q[3]  z == q[4]
        two == Int2R(2)
        D(a, b)    == RSub(R1, RMul(two, RAdd(RMul(a, a), RMul(b, b))))
        P(a, b, c, d) == RMul(two, RAdd(RMul(a, b), RMul(c, d)))
        M(a, b, c, d) == RMul(two, RSub(RMul(a, b), RMul(c, d)))
    IN  Mat3_new(D(y, z),       P(x, y, w, z), M(x, z, w, y),
                 M(x, y, w, z), D(x, z),       P(y, z, w, x),
                 P(x, z, w, y), M(y, z, w, x), D(x, y))

QComps == {Rat(i, 10) : i \in {-10, -8, -6, -5, 0, 5, 6, 8, 10}}

RNorm2(q) == RAdd(RAdd(RMul(q[1], q[1]), RMul(q[2], q[2])),
                  RAdd(RMul(q[3], q[3]), RMul(q[4], q[4])))

\* the unit quaternions with components among 0, 1/2, 3/5, 4/5, 1 and their
\* negatives
UnitRQuats == {q \in QComps \X QComps \X QComps \X QComps : RNorm2(q) = R1}

\* the signed permutation matrices of determinant 1: the 24 rotations of the cube
CubeRots ==
    {m \in {[c \in 0..2 |-> [r \in 0..2 |-> IF r = f[c] THEN Int2R(sg[c]) ELSE R0]] :
               f \in [0..2 -> 0..2], sg \in [0..2 -> {-1, 1}]} :
        Mat3_det(m) = R1}

RotationMats(t) ==
    IF t = "float" THEN CubeRots \cup {RotOfRQuat(q) : q \in UnitRQuats}
    ELSE CubeRots

\* what a cast that is undefined may produce
UndefCast == {-128, 0, 127}

InitQuat ==
    /\ ty \in {"float", "i8"}
    /\ n = 3
    /\ A \in RotationMats(ty) \cup GeneralMats(ty)
    /\ op = "new"
    /\ arg = NoArg
    /\ out = NoArg

DoToQuat ==
    /\ op = "new"
    /\ n = 3
    /\ op' = "to_Quat"
    /\ \E ub \in UndefCast : out' = Mat3_to_Quat(ty, A, ub)
    /\ UNCHANGED <<ty, n, A, arg>>

NextQuat == DoToQuat

SpecQuat == InitQuat /\ [][NextQuat]_vars

-----------------------------------------------------------------------------
(* Mat4::invert step by step.  op is the position in the code; out holds   *)
(* the loop's locals: st = [a, inv], the pivot column j, the row i of the  *)
(* elimination loop and the pivot row i1.                                  *)

InitGJ ==
    /\ ty = "float"
    /\ n = 4
    /\ A \in InitMats(4)
    /\ op = "new"
    /\ arg = NoArg
    /\ out = NoArg

\* `if d.fuzzy_eq(&_0) { None }`
GJNone ==
    /\ op = "new"
    /\ fuzzy_eq(Mat4_det(A), R0)
    /\ op' = "invert"
    /\ out' = None
    /\ UNCHANGED <<ty, n, A, arg>>

\* the else branch: a = self.transpose(), inv = identity
GJBegin ==
    /\ op = "new"
    /\ ~fuzzy_eq(Mat4_det(A), R0)
    /\ op' = "loop"
    /\ out' = [st |-> Mat4_invert_start(A), j |-> 0, i |-> 0, i1 |-> 0]
    /\ UNCHANGED <<ty, n, A, arg>>

\* the search for the pivot row of column j
GJPivot ==
    /\ op = "loop"
    /\ out.j < 4
    /\ op' = "pivot"
    /\ out' = [out EXCEPT !.i1 = Mat4_invert_pivot(out.st.a, out.j)]
    /\ UNCHANGED <<ty, n, A, arg>>

GJSwap ==
    /\ op = "pivot"
    /\ op' = "swap"
    /\ out' = [out EXCEPT !.st = Mat4_invert_swap(out.st, out.i1, out.j)]
    /\ UNCHANGED <<ty, n, A, arg>>

GJScale ==
    /\ op = "swap"
    /\ op' = "scale"
    /\ out' = [out EXCEPT !.st = Mat4_invert_scale(out.st, out.j), !.i = 0]
    /\ UNCHANGED <<ty, n, A, arg>>

\* one iteration of the elimination loop; after the last the outer loop
\* goes on to the next column
GJElimRow ==
    /\ op \in {"scale", "elim"}
    /\ out.i < 4
    /\ LET st1 == Mat4_invert_elim_row(out.st, out.i, out.j)
       IN  IF out.i < 3
           THEN /\ op' = "elim"
                /\ out' = [out EXCEPT !.st = st1, !.i = out.i + 1]
           ELSE /\ op' = "loop"
                /\ out' = [out EXCEPT !.st = st1, !.i = 0, !.j = out.j + 1]
    /\ UNCHANGED <<ty, n, A, arg>>

\* `Some(inv.transpose())`
GJReturn ==
    /\ op = "loop"
    /\ out.j = 4
    /\ op' = "invert"
    /\ out' = Some(Mat4_transpose(out.st.inv))
    /\ UNCHANGED <<ty, n, A, arg>>

NextGJ ==
    \/ GJNone
    \/ GJBegin
    \/ GJPivot
    \/ GJSwap
    \/ GJScale
    \/ GJElimRow
    \/ GJReturn

SpecGJ == InitGJ /\ [][NextGJ]_vars

-----------------------------------------------------------------------------
(* Reference definitions the claims are stated against.                    *)

Idx(nn) == 0..(nn - 1)

HasInverse == op = "invert" /\ out.some

\* C1: whenever invert() returns a matrix, that matrix times A and A times
\* that matrix are both the identity, in every dimension 2, 3, 4.
Thm_C1_InverseTimesSelf ==
    HasInverse => /\ MulM(n, out.val, A) = Identity(n)
                  /\ MulM(n, A, out.val) = Identity(n)

\* a 4x4 inverse found by Gauss-Jordan after a row swap (the first pivot
\* position holds 0), with entries that are not integers
Wit_C1_InverseTimesSelf ==
    /\ HasInverse
    /\ n = 4
    /\ A[0][0] = R0
    /\ \E c \in Idx(4), r \in Idx(4) : ~RIsInt(out.val[c][r])

\* C2: is_invertible() is true exactly when invert() returns Some, and false
\* exactly when it returns None, singular matrices included.
Thm_C2_InvertibleIffSome ==
    /\ op = "invert" => (out.some <=> IsInvertible(n, A))
    /\ op = "is_invertible" => (out <=> Invert(n, A).some)

HasZeroRow(nn, m) == \E r \in Idx(nn) : \A c \in Idx(nn) : m[c][r] = R0

\* a 4x4 matrix with a row of zeros, for which invert() returned None
Wit_C2_InvertibleIffSome ==
    /\ op = "invert"
    /\ n = 4
    /\ HasZeroRow(4, A)
    /\ out = None
    /\ ~IsInvertible(4, A)

TwoEqualCols(nn, m) == \E i \in Idx(nn), j \in Idx(nn) : i < j /\ m[i] = m[j]

\* C3: a matrix with two identical columns has det() = 0 and invert() = None.
Thm_C3_EqualColsSingular ==
    TwoEqualCols(n, A) => /\ op = "det" => out = R0
                          /\ op = "invert" => out = None

\* a 4x4 matrix with two equal columns and no zero row, found singular
Wit_C3_EqualColsSingular ==
    /\ op = "invert"
    /\ n = 4
    /\ TwoEqualCols(4, A)
    /\ ~HasZeroRow(4, A)
    /\ out = None

\* the permutations of 0..nn-1 and their signs
Perms(nn) == {f \in [Idx(nn) -> Idx(nn)] : \A i, j \in Idx(nn) : f[i] = f[j] => i = j}

Inversions(nn, f) == Cardinality({p \in Idx(nn) \X Idx(nn) : p[1] < p[2] /\ f[p[1]] > f[p[2]]})

RECURSIVE ProdDiag(_, _, _)
\* the product over rows r <= i of the entry in column f[r], row r
ProdDiag(m, f, i) ==
    IF i = 0 THEN m[f[0]][0] ELSE RMul(ProdDiag(m, f, i - 1), m[f[i]][i])

PermTerm(nn, m, f) ==
    LET t == ProdDiag(m, f, nn - 1)
    IN  IF Inversions(nn, f) % 2 = 0 THEN t ELSE RNeg(t)

RECURSIVE SumTerms(_, _, _)
SumTerms(nn, m, fs) ==
    IF fs = {} THEN R0
    ELSE LET f == CHOOSE g \in fs : TRUE
         IN  RAdd(PermTerm(nn, m, f), SumTerms(nn, m, fs \ {f}))

\* the determinant as the signed sum over all permutations (Leibniz)
RefDet(nn, m) == SumTerms(nn, m, Perms(nn))

\* C6: det() is the determinant in every dimension: it agrees with the
\* permutation-sum determinant for every input.
Thm_C6_DetIsDeterminant ==
    op = "det" => out = RefDet(n, A)

\* a 4x4 determinant, non-zero, in which all four entries of the first row
\* (and so all four cofactor terms) take part
Wit_C6_DetIsDeterminant ==
    /\ op = "det"
    /\ n = 4
    /\ out # R0
    /\ \A c \in Idx(4) : A[c][0] # R0

RECURSIVE RPow(_, _)
RPow(k, e) == IF e = 0 THEN R1 ELSE RMul(k, RPow(k, e - 1))

\* C7: A.mul_t(k).det() = k^N * A.det().
Thm_C7_DetOfScaled ==
    op = "mul_t" => Det(n, out) = RMul(RPow(arg, n), Det(n, A))

\* an odd dimension, a negative fractional k and a non-zero determinant
Wit_C7_DetOfScaled ==
    /\ op = "mul_t"
    /\ n = 3
    /\ arg = Rat(-3, 2)
    /\ Det(3, A) # R0
    /\ Det(3, out) = RMul(Rat(-27, 8), Det(3, A))

RECURSIVE SumProd(_, _, _, _)
\* sum over k <= i of a[k][row] * b[col][k]
SumProd(a, b, rc, i) ==
    LET t == RMul(a[i][rc[1]], b[rc[2]][i])
    IN  IF i = 0 THEN t ELSE RAdd(SumProd(a, b, rc, i - 1), t)

\* C8: mul_m is the matrix product, column-major: the entry in row i of
\* column j of A.mul_m(B) is dot(A.row(i), B.col(j)) = sum_k A(i,k) * B(k,j).
Thm_C8_MulMIsProduct ==
    op = "mul_m" =>
        \A i \in Idx(n), j \in Idx(n) :
            /\ out[j][i] = Vec_dot(Row(n, A, i), Col(n, arg, j))
            /\ out[j][i] = SumProd(A, arg, <<i, j>>, n - 1)

\* a 4x4 product of two matrices that do not commute, with a result that is
\* not symmetric
Wit_C8_MulMIsProduct ==
    /\ op = "mul_m"
    /\ n = 4
    /\ out # Mat4_transpose(out)
    /\ out # Mat4_mul_m(arg, A)

\* C9: widening keeps the source in the top-left block and fills the rest
\* with the identity pattern; Mat2::identity().to_Mat3().to_Mat4() is
\* Mat4::identity().
Thm_C9_WidenEmbeds ==
    /\ op \in {"to_Mat3", "to_Mat4"} =>
           \A c \in Idx(arg), r \in Idx(arg) :
               out[c][r] = IF c < n /\ r < n THEN A[c][r]
                           ELSE IF c = r THEN R1 ELSE R0
    /\ (op = "to_Mat3" /\ A = Mat2_identity) =>
           Mat3_to_Mat4(out) = Mat4_identity

\* a 2x2 matrix with four distinct non-zero entries widened to 4x4
Wit_C9_WidenEmbeds ==
    /\ op = "to_Mat4"
    /\ n = 2
    /\ Cardinality({A[c][r] : c \in Idx(2), r \in Idx(2)} \ {R0}) = 4
    /\ out[3][3] = R1

M1234 == Mat2_new(Int2R(1), Int2R(2), Int2R(3), Int2R(4))

\* C10: Mat2::new(1,2, 3,4) has det() = -2 and invert() =
\* Some(Mat2::new(-2,1, 1.5,-0.5)).
Thm_C10_Mat2Scenario ==
    (n = 2 /\ A = M1234) =>
        /\ A[0] = Vec2_new(Int2R(1), Int2R(2))
        /\ A[1] = Vec2_new(Int2R(3), Int2R(4))
        /\ op = "det" => out = Int2R(-2)
        /\ op = "invert" => out = Some(Mat2_new(Int2R(-2), Int2R(1), Rat(3, 2), Rat(-1, 2)))

Wit_C10_Mat2Scenario ==
    /\ n = 2
    /\ A = M1234
    /\ op = "invert"
    /\ out.some
    /\ out.val[1][0] = Rat(3, 2)


\* m is a rotation: orthonormal, of determinant 1
IsRotation(m) ==
    /\ Mat3_mul_m(m, Mat3_transpose(m)) = Mat3_identity
    /\ Mat3_det(m) = R1

\* the rotation matrix of a quaternion of floats, column-major
RotOfQuat(q) ==
    LET two == FromT(Int2R(2))
        FNeg(a)    == FMul(FromT(Int2R(-1)), a)
        D(a, b)    == FAdd(F1, FNeg(FMul(two, FAdd(FMul(a, a), FMul(b, b)))))
        P(a, b, c, d) == FMul(two, FAdd(FMul(a, b), FMul(c, d)))
        M(a, b, c, d) == FMul(two, FAdd(FMul(a, b), FNeg(FMul(c, d))))
    IN  Mat3_new(D(q.y, q.z),           P(q.x, q.y, q.w, q.z), M(q.x, q.z, q.w, q.y),
                 M(q.x, q.y, q.w, q.z), D(q.x, q.z),           P(q.y, q.z, q.w, q.x),
                 P(q.x, q.z, q.w, q.y), M(q.y, q.z, q.w, q.x), D(q.x, q.y))

QuatNorm2(q) == FAdd(FAdd(FMul(q.w, q.w), FMul(q.x, q.x)),
                     FAdd(FMul(q.y, q.y), FMul(q.z, q.z)))

FMat3(m) == [c \in 0..2 |-> [r \in 0..2 |-> FromT(m[c][r])]]

\* C4: for every rotation matrix (of floats), in whichever branch, to_Quat()
\* returns the unit quaternion of that rotation.
Cex_C4_ToQuatOfRotation ==
    (op = "to_Quat" /\ ty = "float" /\ IsRotation(A)) =>
        /\ QuatNorm2(out.q) = F1
        /\ RotOfQuat(out.q) = FMat3(A)

\* C4 on the branch trace >= 0 alone
Aux_C4_Branch1 ==
    (op = "to_Quat" /\ ty = "float" /\ IsRotation(A) /\ out.branch = 1) =>
        /\ QuatNorm2(out.q) = F1
        /\ RotOfQuat(out.q) = FMat3(A)

\* C5: for every 3x3 matrix the argument of sqrt in to_Quat() is
\* non-negative in the branch taken.
Cex_C5_SqrtArgNonNegative ==
    op = "to_Quat" => FGe0(out.sqarg)


\* the exact (unwrapped) diagonal sum of m, and the exact difference
\* a_kk - a_ii - a_jj that branch 2, 3 or 4 takes
ExactTrace(m) == RAdd(RAdd(m[0][0], m[1][1]), m[2][2])

ExactDiff(m, branch) ==
    CASE branch = 2 -> RSub(RSub(m[0][0], m[1][1]), m[2][2])
      [] branch = 3 -> RSub(RSub(m[1][1], m[0][0]), m[2][2])
      [] branch = 4 -> RSub(RSub(m[2][2], m[0][0]), m[1][1])

\* T holds the diagonal sum and the difference of the branch taken
DiagFitsT ==
    /\ InT(ty, ExactTrace(A)[1])
    /\ out.branch # 1 => InT(ty, ExactDiff(A, out.branch)[1])

\* C5 (amended): for every 3x3 matrix whose diagonal sum and whose
\* difference a_kk - a_ii - a_jj of the branch taken are representable in T,
\* the argument of sqrt in to_Quat() is non-negative in the branch taken.
Thm_C5_SqrtArgNonNegative ==
    (op = "to_Quat" /\ DiagFitsT) => FGe0(out.sqarg)

\* a matrix of i8 that is no rotation, with a negative trace and a11
\* dominant, whose sum and difference fit
Wit_C5_SqrtArgNonNegative ==
    /\ op = "to_Quat"
    /\ ty = "i8"
    /\ ~IsRotation(A)
    /\ A[0][1] # R0
    /\ out.branch = 3
    /\ DiagFitsT
    /\ FGe0(out.sqarg)

\* C11: Mat3::identity().to_Quat() takes the branch trace >= 0 with
\* s = sqrt(trace + 1) = sqrt(4) and returns the identity quaternion,
\* w = 1 and x = y = z = 0.
Thm_C11_IdentityToQuat ==
    (op = "to_Quat" /\ A = Mat3_identity) =>
        /\ out.trace = FromT(Int2R(3))
        /\ out.branch = 1
        /\ out.sqarg = FromT(Int2R(4))
        /\ out.q = Quat_new(F1, F0, F0, F0)

Wit_C11_IdentityToQuat ==
    /\ op = "to_Quat"
    /\ A = Mat3_identity
    /\ ty = "i8"
    /\ out.q.w = F1

\* C14: the trace to_Quat() selects its branch by is the mathematical sum
\* of the three diagonal entries, also when T does not hold that sum.
Cex_C14_TraceIsExactSum ==
    op = "to_Quat" => out.trace = FromT(ExactTrace(A))

\* T holds the diagonal sum
TraceFitsT == InT(ty, ExactTrace(A)[1])

\* C14 (amended): the trace is summed in T and then cast to float; it is
\* the mathematical sum of the diagonal whenever T holds that sum (the
\* partial sum a00 + a11 may wrap), and the branch is chosen by its sign.
Thm_C14_TraceIsExactSum ==
    (op = "to_Quat" /\ TraceFitsT) =>
        /\ out.trace = FromT(ExactTrace(A))
        /\ (out.branch = 1) <=> ~RLt(ExactTrace(A), R0)

\* i8: a00 + a11 = 200 wraps, the sum 100 of all three fits
Wit_C14_TraceIsExactSum ==
    /\ op = "to_Quat"
    /\ ty = "i8"
    /\ ~InT(ty, RAdd(A[0][0], A[1][1])[1])
    /\ TraceFitsT
    /\ out.trace = FromT(Int2R(100))

\* the positions of the Gauss-Jordan loop, where out holds its locals
InLoop == op \in {"loop", "pivot", "swap", "scale", "elim"}

\* |a[i][j]|, the size of row i's entry in column j of the working matrix
AbsAt(a, i, j) == RAbs(a[i][j])

\* C12: the pivot row i1 chosen for column j is a row in j..3 whose entry
\* in column j is largest in absolute value among the rows j..3 of the
\* current working matrix, and the lowest such row when several tie; the
\* swap then puts exactly that row at position j.
Thm_C12_PivotIsFirstMax ==
    /\ op = "pivot" =>
          LET a == out.st.a  j == out.j  i1 == out.i1
          IN  /\ i1 \in j..3
              /\ \A i \in j..3 : ~RLt(AbsAt(a, i1, j), AbsAt(a, i, j))
              /\ \A i \in j..(i1 - 1) : RLt(AbsAt(a, i, j), AbsAt(a, i1, j))
    /\ op = "swap" =>
          \A i \in out.j..3 :
              ~RLt(AbsAt(out.st.a, out.j, out.j), AbsAt(out.st.a, i, out.j))

\* two rows tie for the maximum and the lower one is the pivot row, in a
\* column reached after an earlier step did swap
Wit_C12_PivotIsFirstMax ==
    /\ op = "pivot"
    /\ out.j >= 1
    /\ \E i \in (out.i1 + 1)..3 :
          AbsAt(out.st.a, i, out.j) = AbsAt(out.st.a, out.i1, out.j)
    /\ out.st.inv[0] # Mat4_identity[0]

\* column c of the working matrix is the unit column: 1 in row c, 0 elsewhere
UnitCol(a, c) == \A i \in 0..3 : a[i][c] = (IF i = c THEN R1 ELSE R0)

\* C13: after the step for pivot column j the working matrix has a[j][j] = 1
\* and 0 in column j of every other row, the columns handled before are
\* still unit columns, and after all four steps it is the identity.
Thm_C13_StepReducesColumn ==
    /\ op = "scale" => out.st.a[out.j][out.j] = R1
    /\ (op = "loop" /\ out.j >= 1) =>
          /\ out.st.a[out.j - 1][out.j - 1] = R1
          /\ \A i \in 0..3 : i # out.j - 1 => out.st.a[i][out.j - 1] = R0
          /\ \A c \in 0..(out.j - 1) : UnitCol(out.st.a, c)
    /\ (op = "loop" /\ out.j = 4) => out.st.a = Mat4_identity

\* all four steps done on a matrix with no zero entry in its first row
Wit_C13_StepReducesColumn ==
    /\ op = "loop"
    /\ out.j = 4
    /\ \A c \in 0..3 : A[c][0] # R0
    /\ out.st.a = Mat4_identity
    /\ out.st.inv # Mat4_identity

\* C15: past the determinant check, the pivot a[j][j] the normalise step
\* divides by is non-zero after the row swap, for every pivot column j.
Thm_C15_PivotNonZero ==
    op = "swap" => out.st.a[out.j][out.j] # R0

\* the diagonal entry was zero before the swap (it now stands in row i1)
Wit_C15_PivotNonZero ==
    /\ op = "swap"
    /\ out.j >= 1
    /\ out.i1 # out.j
    /\ out.st.a[out.i1][out.j] = R0
    /\ out.st.a[out.j][out.j] # R0

\* entry (i, c) of the product of the accumulator, read as rows, with m
RowsTimes(inv, m, i, c) ==
    RAdd(RAdd(RMul(inv[i][0], m[c][0]), RMul(inv[i][1], m[c][1])),
         RAdd(RMul(inv[i][2], m[c][2]), RMul(inv[i][3], m[c][3])))

\* C16: at the start of the loop and after every swap, normalise and
\* eliminate step, the accumulator (read as rows) times the original matrix
\* is the working matrix (read as rows).
Thm_C16_SameRowOperations ==
    InLoop =>
        \A i \in 0..3, c \in 0..3 :
            RowsTimes(out.st.inv, A, i, c) = out.st.a[i][c]

\* in the middle of an elimination, after rows were swapped
Wit_C16_SameRowOperations ==
    /\ op = "elim"
    /\ out.j = 2
    /\ out.i = 2
    /\ out.i1 # out.j
    /\ \A c \in 0..3 : A[c][0] # R0
    /\ RowsTimes(out.st.inv, A, 3, 3) = out.st.a[3][3]

\* the steps return what the operator Mat4_invert computes
Aux_GJ_ReturnsInvert ==
    op = "invert" => out = Mat4_invert(A)

=============================================================================
